---- MODULE Spec2Model ----
(***************************************************************************)
(* sjtu::map (src/src/map.hpp): an AVL tree with parent references, its    *)
(* bidirectional iterator, and the public operations of the map.           *)
(*                                                                         *)
(* Nodes live in a heap of MaxNodes addresses; address 0 is nullptr.  Two  *)
(* map objects (1 and 2) share the heap, so that copy construction and     *)
(* copy assignment can be exercised.  One outstanding iterator `it' is     *)
(* kept beside the maps; erase(find(k)) uses a temporary position.         *)
(***************************************************************************)
EXTENDS Integers, FiniteSets, Sequences, TLC

\* Keys of the specification that checks the shape of the tree.
MaxKey == 4
\* Keys of the specifications that also carry values, an iterator or counters.
MaxSmallKey == 3
\* Addresses of the heap.
MaxNodes == 6
\* Successful erasures counted by SpecSize.
MaxErase == 2

NULL == 0
\* T()
DefaultVal == 0

Keys == 1..MaxKey
SmallKeys == 1..MaxSmallKey
Vals == {DefaultVal, DefaultVal + 1}
NodeIds == 1..MaxNodes
Maps == {1, 2}

VARIABLES
  heap,   \* address -> node
  live,   \* the addresses that hold a node (allocated and not deleted)
  root,   \* map -> Node *root
  n,      \* map -> size_t n
  built,  \* the map objects whose lifetime has begun and not ended
  it,     \* the outstanding iterator: owner (0: none) and cur
  last,   \* the operation that ran last and how it ended
  hist    \* SpecSize: keys ever inserted, successful insertions and erasures

vars == <<heap, live, root, n, built, it, last, hist>>

\* The content of an address that holds no node.
Blank == [key |-> 0, val |-> 0, left |-> NULL, right |-> NULL, parent |-> NULL, height |-> 0]

\* Node(const value_type &v, Node *p)
Node(k, v, p) == [key |-> k, val |-> v, left |-> NULL, right |-> NULL, parent |-> p, height |-> 1]

\* operator new: the lowest free address (the program never orders or hashes
\* addresses, so its behaviour does not depend on which free one it gets).
Alloc(lv) == CHOOSE x \in NodeIds \ lv : \A y \in NodeIds \ lv : x <= y

\* Compare = std::less<Key>
comp(a, b) == a < b

h(hp, x) == IF x # NULL THEN hp[x].height ELSE 0

max2(a, b) == IF a > b THEN a ELSE b

upd(hp, x) ==
  IF x # NULL
    THEN [hp EXCEPT ![x].height = 1 + max2(h(hp, hp[x].left), h(hp, hp[x].right))]
    ELSE hp

bf(hp, x) == IF x # NULL THEN h(hp, hp[x].left) - h(hp, hp[x].right) ELSE 0

\* if (c) c->parent = p
fixParent(hp, child, p) == IF child # NULL THEN [hp EXCEPT ![child].parent = p] ELSE hp

\* The rotation leaves the parent of the new subtree root as it was.
copyParentNone(hp, x, y) == hp

\* x->parent = y->parent
copyParent(hp, x, y) == [hp EXCEPT ![x].parent = hp[y].parent]

rotateRight(hp, y) ==
  LET x  == hp[y].left
      T2 == hp[x].right
  IN  [heap |-> copyParent(
                  upd(upd(fixParent([hp EXCEPT ![x].right = y, ![y].parent = x, ![y].left = T2],
                                    T2, y), y), x),
                  x, y),
       res |-> x]

rotateLeft(hp, x) ==
  LET y  == hp[x].right
      T2 == hp[y].left
  IN  [heap |-> copyParent(
                  upd(upd(fixParent([hp EXCEPT ![y].left = x, ![x].parent = y, ![x].right = T2],
                                    T2, x), x), y),
                  y, x),
       res |-> y]

\* node->left = r.res; if (node->left) node->left->parent = node
setLeft(r, node) == fixParent([r.heap EXCEPT ![node].left = r.res], r.res, node)

\* node->right = r.res; if (node->right) node->right->parent = node
setRight(r, node) == fixParent([r.heap EXCEPT ![node].right = r.res], r.res, node)

\* Node *newRoot = rotateRight(node); if (newRoot->right) newRoot->right->parent = newRoot
\* rot (not in the code) records that a rotation ran.
rightRotated(r) ==
  [heap |-> fixParent(r.heap, r.heap[r.res].right, r.res), res |-> r.res, rot |-> TRUE]

\* Node *newRoot = rotateLeft(node); if (newRoot->left) newRoot->left->parent = newRoot
leftRotated(r) ==
  [heap |-> fixParent(r.heap, r.heap[r.res].left, r.res), res |-> r.res, rot |-> TRUE]

\* The branches of rebalance without the first rotation of the LR and RL cases.
rebalanceSingle(hp, node) ==
  IF bf(hp, node) > 1 THEN rightRotated(rotateRight(hp, node))
  ELSE IF bf(hp, node) < -1 THEN leftRotated(rotateLeft(hp, node))
  ELSE [heap |-> hp, res |-> node, rot |-> FALSE]

\* The branches of rebalance, taken after upd(node).
rebalanceFrom(hp, node) ==
  IF bf(hp, node) > 1 THEN
    rightRotated(rotateRight(IF bf(hp, hp[node].left) < 0
                               THEN setLeft(rotateLeft(hp, hp[node].left), node)
                               ELSE hp,
                             node))
  ELSE IF bf(hp, node) < -1 THEN
    leftRotated(rotateLeft(IF bf(hp, hp[node].right) > 0
                             THEN setRight(rotateRight(hp, hp[node].right), node)
                             ELSE hp,
                           node))
  ELSE [heap |-> hp, res |-> node, rot |-> FALSE]

rebalance(hp, node) == rebalanceFrom(upd(hp, node), node)

\* minNode without its loop.
minNodeNoLoop(hp, x) == x

RECURSIVE minNode(_, _)
minNode(hp, x) ==
  IF x = NULL THEN NULL
  ELSE IF hp[x].left # NULL THEN minNode(hp, hp[x].left) ELSE x

\* maxNode without its loop.
maxNodeNoLoop(hp, x) == x

RECURSIVE maxNode(_, _)
maxNode(hp, x) ==
  IF x = NULL THEN NULL
  ELSE IF hp[x].right # NULL THEN maxNode(hp, hp[x].right) ELSE x

\* while (p && x == p->right) { x = p; p = p->parent; }
RECURSIVE climbRight(_, _, _)
climbRight(hp, x, p) ==
  IF p # NULL /\ x = hp[p].right THEN climbRight(hp, p, hp[p].parent) ELSE p

RECURSIVE climbLeft(_, _, _)
climbLeft(hp, x, p) ==
  IF p # NULL /\ x = hp[p].left THEN climbLeft(hp, p, hp[p].parent) ELSE p

\* successor that steps to the parent without climbing.
successorNoClimb(hp, x) ==
  IF x = NULL THEN NULL
  ELSE IF hp[x].right # NULL THEN minNode(hp, hp[x].right)
  ELSE hp[x].parent

successor(hp, x) ==
  IF x = NULL THEN NULL
  ELSE IF hp[x].right # NULL THEN minNode(hp, hp[x].right)
  ELSE climbRight(hp, x, hp[x].parent)

predecessor(hp, x) ==
  IF x = NULL THEN NULL
  ELSE IF hp[x].left # NULL THEN maxNode(hp, hp[x].left)
  ELSE climbLeft(hp, x, hp[x].parent)

RECURSIVE findFrom(_, _, _)
findFrom(hp, cur, key) ==
  IF cur = NULL THEN NULL
  ELSE IF comp(key, hp[cur].key) THEN findFrom(hp, hp[cur].left, key)
  ELSE IF comp(hp[cur].key, key) THEN findFrom(hp, hp[cur].right, key)
  ELSE cur

findNode(hp, rt, key) == findFrom(hp, rt, key)

\* if (res->left) res->left->parent = res; if (res->right) res->right->parent = res
fixChildren(hp, res) == fixParent(fixParent(hp, hp[res].left, res), hp[res].right, res)

\* The tail of insertNode after Node *res = rebalance(node): rb is what
\* rebalance returned, r what the recursive call reported.
insertDone(rb, parent, r) ==
  [heap |-> [fixChildren(rb.heap, rb.res) EXCEPT ![rb.res].parent = parent],
   res |-> rb.res, inserted |-> r.inserted, ins |-> r.ins, rot |-> r.rot \/ rb.rot]

insertFix(hp, node, parent, r) == insertDone(rebalance(hp, node), parent, r)

\* node->left = insertNode(node->left, ...), then the tail
insertLeft(r, node, parent) ==
  insertFix([r.heap EXCEPT ![node].left = r.res], node, parent, r)

\* node->right = insertNode(node->right, ...), then the tail
insertRight(r, node, parent) ==
  insertFix([r.heap EXCEPT ![node].right = r.res], node, parent, r)

\* insertNode that descends into the left subtree for a greater key too.
RECURSIVE insertNodeWrongSide(_, _, _, _, _, _)
insertNodeWrongSide(hp, node, parent, key, val, nn) ==
  IF node = NULL THEN
    [heap |-> [hp EXCEPT ![nn] = Node(key, val, parent)],
     res |-> nn, inserted |-> TRUE, ins |-> nn, rot |-> FALSE]
  ELSE IF comp(key, hp[node].key) \/ comp(hp[node].key, key) THEN
    insertLeft(insertNodeWrongSide(hp, hp[node].left, node, key, val, nn), node, parent)
  ELSE [heap |-> hp, res |-> node, inserted |-> FALSE, ins |-> node, rot |-> FALSE]

\* insertNode that stores the new value in the node of an equivalent key.
RECURSIVE insertNodeAssign(_, _, _, _, _, _)
insertNodeAssign(hp, node, parent, key, val, nn) ==
  IF node = NULL THEN
    [heap |-> [hp EXCEPT ![nn] = Node(key, val, parent)],
     res |-> nn, inserted |-> TRUE, ins |-> nn, rot |-> FALSE]
  ELSE IF comp(key, hp[node].key) THEN
    insertLeft(insertNodeAssign(hp, hp[node].left, node, key, val, nn), node, parent)
  ELSE IF comp(hp[node].key, key) THEN
    insertRight(insertNodeAssign(hp, hp[node].right, node, key, val, nn), node, parent)
  ELSE [heap |-> [hp EXCEPT ![node].val = val], res |-> node, inserted |-> FALSE,
        ins |-> node, rot |-> FALSE]

\* nn is the address operator new returns if the key is absent; rot (not in
\* the code) records whether a rotation ran.
RECURSIVE insertNode(_, _, _, _, _, _)
insertNode(hp, node, parent, key, val, nn) ==
  IF node = NULL THEN
    [heap |-> [hp EXCEPT ![nn] = Node(key, val, parent)],
     res |-> nn, inserted |-> TRUE, ins |-> nn, rot |-> FALSE]
  ELSE IF comp(key, hp[node].key) THEN
    insertLeft(insertNode(hp, hp[node].left, node, key, val, nn), node, parent)
  ELSE IF comp(hp[node].key, key) THEN
    insertRight(insertNode(hp, hp[node].right, node, key, val, nn), node, parent)
  ELSE [heap |-> hp, res |-> node, inserted |-> FALSE, ins |-> node, rot |-> FALSE]

\* The tail of eraseByNode after Node *res = rebalance(node): the children's
\* parents are fixed; the parent of res itself is left as the rotation set it.
eraseDone(rb, r) ==
  [heap |-> fixChildren(rb.heap, rb.res), res |-> rb.res, erased |-> r.erased,
   freed |-> r.freed, dec |-> r.dec, rot |-> r.rot \/ rb.rot, two |-> r.two]

eraseFix(hp, node, r) == eraseDone(rebalance(hp, node), r)

\* node->left = eraseByNode(node->left, ...); the parent fix; the tail
eraseLeft(r, node) == eraseFix(setLeft(r, node), node, r)

\* node->right = eraseByNode(node->right, ...); the parent fix; the tail
eraseRight(r, node) == eraseFix(setRight(r, node), node, r)

\* Only the successor's key is copied into the node.
copyValueKey(hp, node, s) == [hp EXCEPT ![node].key = hp[s].key]

\* The successor's pair is not copied into the node.
copyValueNone(hp, node, s) == hp

\* value_type tmp = s->value; node->value.~value_type(); new (&node->value) value_type(tmp)
copyValue(hp, node, s) == [hp EXCEPT ![node].key = hp[s].key, ![node].val = hp[s].val]

\* The at-most-one-child branch without --n.
eraseUnlinkNoDec(hp, node, child) ==
  [heap |-> [fixParent(hp, child, hp[node].parent) EXCEPT ![node] = Blank], res |-> child,
   erased |-> TRUE, freed |-> {node}, dec |-> 0, rot |-> FALSE, two |-> FALSE]

\* Node *child = node->left ? node->left : node->right;
\* if (child) child->parent = node->parent; delete node; return child
eraseUnlink(hp, node, child) ==
  [heap |-> [fixParent(hp, child, hp[node].parent) EXCEPT ![node] = Blank], res |-> child,
   erased |-> TRUE, freed |-> {node}, dec |-> 1, rot |-> FALSE, two |-> FALSE]

\* freed: the addresses deleted; dec: how often --n ran; rot and two (not in
\* the code) record whether a rotation ran and whether the two-children branch did.
RECURSIVE eraseByNode(_, _, _)

\* The two-children branch once the successor's pair is in the node:
\* node->right = eraseByNode(node->right, s, erased2); erased = true
eraseSuccessor(hp, node, s) ==
  eraseRight([eraseByNode(hp, hp[node].right, s) EXCEPT !.erased = TRUE, !.two = TRUE], node)

eraseByNode(hp, node, target) ==
  IF node = NULL THEN
    [heap |-> hp, res |-> NULL, erased |-> FALSE, freed |-> {}, dec |-> 0,
     rot |-> FALSE, two |-> FALSE]
  ELSE IF node = target THEN
    IF hp[node].left = NULL \/ hp[node].right = NULL THEN
      eraseUnlink(hp, node, IF hp[node].left # NULL THEN hp[node].left ELSE hp[node].right)
    ELSE
      LET s == minNode(hp, hp[node].right)
      IN  eraseSuccessor(copyValue(hp, node, s), node, s)
  ELSE IF comp(hp[target].key, hp[node].key) THEN
    eraseLeft(eraseByNode(hp, hp[node].left, target), node)
  ELSE
    eraseRight(eraseByNode(hp, hp[node].right, target), node)

\* The addresses destroy(x) deletes: the nodes reached through child links.
RECURSIVE destroy(_, _)
destroy(hp, x) ==
  IF x = NULL THEN {}
  ELSE destroy(hp, hp[x].left) \cup destroy(hp, hp[x].right) \cup {x}

\* clone that returns the node it was given instead of a new one.
cloneShared(hp, lv, x, parent) == [heap |-> hp, live |-> lv, res |-> x]

RECURSIVE clone(_, _, _, _)

\* y->right = clone(x->right, y); return y
cloneRight(r, y) == [heap |-> [r.heap EXCEPT ![y].right = r.res], live |-> r.live, res |-> y]

\* y->left = clone(x->left, y), then the right subtree (right: x->right)
cloneLeft(l, right, y) ==
  cloneRight(clone([l.heap EXCEPT ![y].left = l.res], l.live, right, y), y)

\* cloneNode without y->height = x->height.
cloneNodeFresh(hp, lv, x, parent, y) ==
  cloneLeft(clone([hp EXCEPT ![y] = Node(hp[x].key, hp[x].val, parent)],
                  lv \cup {y}, hp[x].left, y),
            hp[x].right, y)

\* Node *y = new Node(x->value, parent); y->height = x->height
cloneNode(hp, lv, x, parent, y) ==
  cloneLeft(clone([hp EXCEPT ![y] = [Node(hp[x].key, hp[x].val, parent)
                                       EXCEPT !.height = hp[x].height]],
                  lv \cup {y}, hp[x].left, y),
            hp[x].right, y)

clone(hp, lv, x, parent) ==
  IF x = NULL THEN [heap |-> hp, live |-> lv, res |-> NULL]
  ELSE cloneNode(hp, lv, x, parent, Alloc(lv))

\* The nodes of the subtree of x, by child links (what destroy(x) deletes).
NodesOf(m) == destroy(heap, root[m])

Free(lv) == NodeIds \ lv

\* An iterator can be used when it holds nullptr or the address of a node that
\* has not been deleted, and its owner (if any) has not been destroyed.
Usable(i) == (i.cur = NULL \/ i.cur \in live) /\ (i.owner = 0 \/ i.owner \in built)

\* ok: insert: the bool returned; operator[]: a node was created; every other
\* operation: it returned without throwing.  rot, two: see eraseByNode.
Op(op, ok, rot, two) == [op |-> op, ok |-> ok, rot |-> rot, two |-> two]

Init ==
  /\ heap = [x \in NodeIds |-> Blank]
  /\ live = {}
  /\ root = [m \in Maps |-> NULL]
  /\ n = [m \in Maps |-> 0]
  /\ built = {1}
  /\ it = [owner |-> 0, cur |-> NULL]
  /\ last = Op("init", TRUE, FALSE, FALSE)
  /\ hist = [ever |-> {}, ins |-> 0, ers |-> 0]

\* map(): a map object comes into existence empty.
Construct(m) ==
  /\ m \notin built
  /\ built' = built \cup {m}
  /\ root' = [root EXCEPT ![m] = NULL]
  /\ n' = [n EXCEPT ![m] = 0]
  /\ last' = Op("construct", TRUE, FALSE, FALSE)
  /\ UNCHANGED <<heap, live, it, hist>>

\* clear that resets root and n without destroy(root).
clearedLeak(hp, lv, gone) == [heap |-> hp, live |-> lv]

\* void clear(): destroy(root); root = nullptr; n = 0
cleared(hp, lv, gone) ==
  [heap |-> [x \in NodeIds |-> IF x \in gone THEN Blank ELSE hp[x]], live |-> lv \ gone]

clear(hp, lv, rt) == cleared(hp, lv, destroy(hp, rt))

\* The heap after an operation returned c.
Heap(c) == heap' = c.heap /\ live' = c.live

Clear(m) ==
  /\ m \in built
  /\ Heap(clear(heap, live, root[m]))
  /\ root' = [root EXCEPT ![m] = NULL]
  /\ n' = [n EXCEPT ![m] = 0]
  /\ last' = Op("clear", TRUE, FALSE, FALSE)
  /\ UNCHANGED <<built, it, hist>>

\* ~map() { clear(); }  Map 1 is the long-lived object.
Destruct(m) ==
  /\ m \in built /\ m # 1
  /\ Heap(clear(heap, live, root[m]))
  /\ root' = [root EXCEPT ![m] = NULL]
  /\ n' = [n EXCEPT ![m] = 0]
  /\ built' = built \ {m}
  /\ last' = Op("destruct", TRUE, FALSE, FALSE)
  /\ UNCHANGED <<it, hist>>

\* if (root) { if (root->left) root->left->parent = root;
\*             if (root->right) root->right->parent = root; }
copied(c) ==
  [heap |-> IF c.res # NULL THEN fixChildren(c.heap, c.res) ELSE c.heap,
   live |-> c.live, res |-> c.res]

\* root = clone(other.root, nullptr); n = other.n; the two parent fixes.
copyFrom(hp, lv, src) == copied(clone(hp, lv, src, NULL))

\* The copy c becomes the tree of m.
Copy(m, c) == Heap(c) /\ root' = [root EXCEPT ![m] = c.res]

\* map(const map &other)
CopyConstruct(m, o) ==
  /\ m \notin built /\ o \in built
  /\ Cardinality(Free(live)) >= Cardinality(NodesOf(o))
  /\ Copy(m, copyFrom(heap, live, root[o]))
  /\ n' = [n EXCEPT ![m] = n[o]]
  /\ built' = built \cup {m}
  /\ last' = Op("copy", TRUE, FALSE, FALSE)
  /\ UNCHANGED <<it, hist>>

\* if (this == &other) return *this; clear(); then as the copy constructor
AssignFrom(m, o, cl) ==
  /\ Cardinality(Free(cl.live)) >= Cardinality(NodesOf(o))
  /\ Copy(m, copyFrom(cl.heap, cl.live, root[o]))
  /\ n' = [n EXCEPT ![m] = n[o]]

\* map &operator=(const map &other)
Assign(m, o) ==
  /\ m \in built /\ o \in built
  /\ IF m = o
       THEN UNCHANGED <<heap, live, root, n>>
       ELSE AssignFrom(m, o, clear(heap, live, root[m]))
  /\ last' = Op("assign", TRUE, FALSE, FALSE)
  /\ UNCHANGED <<built, it, hist>>

\* The parent of the root is left as eraseByNode or insertNode returned it.
rootParentKeep(hp, rt) == hp

\* if (root) root->parent = nullptr
rootParent(hp, rt) == IF rt # NULL THEN [hp EXCEPT ![rt].parent = NULL] ELSE hp

\* The address operator new returns next (NULL: the heap is full).
NewNode(lv) == IF Free(lv) # {} THEN Alloc(lv) ELSE NULL

\* insert after root = insertNode(root, nullptr, value, inserted, &p)
inserted(r, lv, nn) ==
  [heap |-> rootParent(r.heap, r.res), live |-> IF r.inserted THEN lv \cup {nn} ELSE lv,
   root |-> r.res, inserted |-> r.inserted, ins |-> r.ins, rot |-> r.rot]

\* pair<iterator, bool> insert(const value_type &value)
insert(hp, lv, rt, k, v) ==
  inserted(insertNode(hp, rt, NULL, k, v, NewNode(lv)), lv, NewNode(lv))

\* The map m after insert or operator[] returned r.
Inserted(m, r, op) ==
  /\ Heap(r)
  /\ root' = [root EXCEPT ![m] = r.root]
  /\ n' = [n EXCEPT ![m] = IF r.inserted THEN @ + 1 ELSE @]
  /\ last' = Op(op, r.inserted, r.rot, FALSE)

InsertOp(m, k, v) ==
  /\ m \in built
  /\ findNode(heap, root[m], k) # NULL \/ Free(live) # {}
  /\ Inserted(m, insert(heap, live, root[m], k, v), "insert")
  /\ UNCHANGED <<built, it>>

Insert(m, k, v) == InsertOp(m, k, v) /\ UNCHANGED hist

\* operator[] that gives a new element a value other than T().
indexedOther(hp, lv, rt, k, x) ==
  IF x # NULL
    THEN [heap |-> hp, live |-> lv, root |-> rt, inserted |-> FALSE, ins |-> x, rot |-> FALSE]
    ELSE insert(hp, lv, rt, k, DefaultVal + 1)

\* if (x) return x->value.second; otherwise insertNode with value_type(key, T())
indexed(hp, lv, rt, k, x) ==
  IF x # NULL
    THEN [heap |-> hp, live |-> lv, root |-> rt, inserted |-> FALSE, ins |-> x, rot |-> FALSE]
    ELSE insert(hp, lv, rt, k, DefaultVal)

\* T &operator[](const Key &key): the node whose value is returned
index(hp, lv, rt, k) == indexed(hp, lv, rt, k, findNode(hp, rt, k))

IndexOp(m, k) ==
  /\ m \in built
  /\ findNode(heap, root[m], k) # NULL \/ Free(live) # {}
  /\ Inserted(m, index(heap, live, root[m], k), "index")
  /\ UNCHANGED <<built, it>>

Index(m, k) == IndexOp(m, k) /\ UNCHANGED hist

\* erase that decrements n once more when the node had two children.
erasedTwoTwice(r, lv, cnt) ==
  [heap |-> rootParent(r.heap, r.res), live |-> lv \ r.freed, root |-> r.res,
   n |-> cnt - r.dec - (IF r.two THEN 1 ELSE 0),
   thrown |-> ~r.erased, freed |-> r.freed, rot |-> r.rot, two |-> r.two]

\* erase after root = eraseByNode(root, pos.cur, erased):
\* if (root) root->parent = nullptr; if (!erased) throw invalid_iterator()
erased(r, lv, cnt) ==
  [heap |-> rootParent(r.heap, r.res), live |-> lv \ r.freed, root |-> r.res,
   n |-> cnt - r.dec,
   thrown |-> ~r.erased, freed |-> r.freed, rot |-> r.rot, two |-> r.two]

\* erase that takes a position of any map for the element of this map with an
\* equivalent key.
eraseByKey(hp, lv, rt, cnt, m, pos) ==
  IF pos.cur = NULL \/ findNode(hp, rt, hp[pos.cur].key) = NULL
    THEN [heap |-> hp, live |-> lv, root |-> rt, n |-> cnt, thrown |-> TRUE,
          freed |-> {}, rot |-> FALSE, two |-> FALSE]
    ELSE erased(eraseByNode(hp, rt, findNode(hp, rt, hp[pos.cur].key)), lv, cnt)

\* void erase(iterator pos); thrown: invalid_iterator
erase(hp, lv, rt, cnt, m, pos) ==
  IF pos.owner # m \/ pos.cur = NULL
    THEN [heap |-> hp, live |-> lv, root |-> rt, n |-> cnt, thrown |-> TRUE,
          freed |-> {}, rot |-> FALSE, two |-> FALSE]
    ELSE erased(eraseByNode(hp, rt, pos.cur), lv, cnt)

\* The map m after erase returned r.
Erased(m, r, op) ==
  /\ Heap(r)
  /\ root' = [root EXCEPT ![m] = r.root]
  /\ n' = [n EXCEPT ![m] = r.n]
  /\ last' = Op(op, ~r.thrown, r.rot, r.two)

\* m.erase(m.find(k))
EraseOp(m, k) ==
  /\ m \in built
  /\ Erased(m, erase(heap, live, root[m], n[m], m, [owner |-> m, cur |-> findNode(heap, root[m], k)]),
            "erase")
  /\ UNCHANGED <<built, it>>

Erase(m, k) == EraseOp(m, k) /\ UNCHANGED hist

\* m.erase(it)
EraseIt(m) ==
  /\ m \in built
  /\ Usable(it)
  /\ Erased(m, erase(heap, live, root[m], n[m], m, it), "eraseIt")
  /\ UNCHANGED <<built, it, hist>>

\* A lookup that returns the value of an absent key as T() instead of throwing.
valueOfNoThrow(hp, x) ==
  IF x = NULL THEN [thrown |-> FALSE, val |-> DefaultVal]
  ELSE [thrown |-> FALSE, val |-> hp[x].val]

\* if (!x) throw index_out_of_bound(); return x->value.second
valueOf(hp, x) ==
  IF x = NULL THEN [thrown |-> TRUE, val |-> DefaultVal]
  ELSE [thrown |-> FALSE, val |-> hp[x].val]

\* T &at(const Key &key) and const T &at(const Key &key) const
at(hp, rt, k) == valueOf(hp, findNode(hp, rt, k))

\* const T &operator[](const Key &key) const
constIndex(hp, rt, k) == valueOf(hp, findNode(hp, rt, k))

\* m.at(k); ok: index_out_of_bound was not thrown
At(m, k) ==
  /\ m \in built
  /\ last' = Op("at", ~at(heap, root[m], k).thrown, FALSE, FALSE)
  /\ UNCHANGED <<heap, live, root, n, built, it, hist>>

\* m[k] of a const map
ConstIndex(m, k) ==
  /\ m \in built
  /\ last' = Op("constIndex", ~constIndex(heap, root[m], k).thrown, FALSE, FALSE)
  /\ UNCHANGED <<heap, live, root, n, built, it, hist>>

\* iterator find(const Key &key)
find(hp, rt, m, k) == [owner |-> m, cur |-> findNode(hp, rt[m], k)]

\* iterator begin()
begin(hp, rt, m) == [owner |-> m, cur |-> minNode(hp, rt[m])]

\* iterator end()
end(m) == [owner |-> m, cur |-> NULL]

ItFind(m, k) ==
  /\ m \in built
  /\ it' = find(heap, root, m, k)
  /\ last' = Op("find", TRUE, FALSE, FALSE)
  /\ UNCHANGED <<heap, live, root, n, built, hist>>

ItBegin(m) ==
  /\ m \in built
  /\ it' = begin(heap, root, m)
  /\ last' = Op("begin", TRUE, FALSE, FALSE)
  /\ UNCHANGED <<heap, live, root, n, built, hist>>

ItEnd(m) ==
  /\ m \in built
  /\ it' = end(m)
  /\ last' = Op("end", TRUE, FALSE, FALSE)
  /\ UNCHANGED <<heap, live, root, n, built, hist>>

\* iterator()
ItDefault ==
  /\ it' = [owner |-> 0, cur |-> NULL]
  /\ last' = Op("default", TRUE, FALSE, FALSE)
  /\ UNCHANGED <<heap, live, root, n, built, hist>>

\* operator++: whether invalid_iterator is thrown, and the new cur
inc(hp, i) ==
  IF i.owner = 0 THEN [thrown |-> TRUE, cur |-> i.cur]
  ELSE IF i.cur = NULL THEN [thrown |-> TRUE, cur |-> i.cur]
  ELSE [thrown |-> FALSE, cur |-> successor(hp, i.cur)]

\* operator-- without the check for begin().
decNoBeginCheck(hp, rt, i) ==
  IF i.owner = 0 THEN [thrown |-> TRUE, cur |-> i.cur]
  ELSE IF i.cur = NULL
    THEN IF rt[i.owner] = NULL THEN [thrown |-> TRUE, cur |-> i.cur]
         ELSE [thrown |-> FALSE, cur |-> maxNode(hp, rt[i.owner])]
  ELSE [thrown |-> FALSE, cur |-> predecessor(hp, i.cur)]

\* operator--: whether invalid_iterator is thrown, and the new cur
dec(hp, rt, i) ==
  IF i.owner = 0 THEN [thrown |-> TRUE, cur |-> i.cur]
  ELSE IF i.cur = NULL
    THEN IF rt[i.owner] = NULL THEN [thrown |-> TRUE, cur |-> i.cur]
         ELSE [thrown |-> FALSE, cur |-> maxNode(hp, rt[i.owner])]
  ELSE IF i.cur = minNode(hp, rt[i.owner]) THEN [thrown |-> TRUE, cur |-> i.cur]
  ELSE [thrown |-> FALSE, cur |-> predecessor(hp, i.cur)]

\* operator*: whether invalid_iterator is thrown, and the pair denoted
deref(hp, i) ==
  IF i.owner = 0 \/ i.cur = NULL THEN [thrown |-> TRUE, key |-> 0, val |-> 0]
  ELSE [thrown |-> FALSE, key |-> hp[i.cur].key, val |-> hp[i.cur].val]

\* ++it and it++ (iterator and const_iterator alike)
ItInc ==
  /\ Usable(it)
  /\ LET c == inc(heap, it)
     IN  /\ it' = [it EXCEPT !.cur = c.cur]
         /\ last' = Op("inc", ~c.thrown, FALSE, FALSE)
  /\ UNCHANGED <<heap, live, root, n, built, hist>>

\* --it and it-- (iterator and const_iterator alike)
ItDec ==
  /\ Usable(it)
  /\ LET c == dec(heap, root, it)
     IN  /\ it' = [it EXCEPT !.cur = c.cur]
         /\ last' = Op("dec", ~c.thrown, FALSE, FALSE)
  /\ UNCHANGED <<heap, live, root, n, built, hist>>

\* *it
ItDeref ==
  /\ Usable(it)
  /\ last' = Op("deref", ~deref(heap, it).thrown, FALSE, FALSE)
  /\ UNCHANGED <<heap, live, root, n, built, it, hist>>

\* No copy of map 1 exists.
Alone == built = {1}

\* The shape of the tree: one map over Keys with default values.  A second map
\* object is copy-constructed from it, assigned to and from it, and destroyed;
\* map 1 is changed while no copy exists.
Next ==
  \/ Alone /\ Clear(1)
  \/ \E k \in Keys : Alone /\ Insert(1, k, DefaultVal)
  \/ \E k \in Keys : Alone /\ Index(1, k)
  \/ \E k \in Keys : Alone /\ Erase(1, k)
  \/ CopyConstruct(2, 1)
  \/ \E m, o \in Maps : Assign(m, o)
  \/ Destruct(2)

Spec == Init /\ [][Next]_vars

\* Contents: one map over SmallKeys with every value.
NextVal ==
  \/ Clear(1)
  \/ \E k \in SmallKeys, v \in Vals : Insert(1, k, v)
  \/ \E k \in SmallKeys : Index(1, k)
  \/ \E k \in SmallKeys : Erase(1, k)

SpecVal == Init /\ [][NextVal]_vars

\* One map over SmallKeys and the outstanding iterator.
NextIter ==
  \/ Clear(1)
  \/ \E k \in SmallKeys : Insert(1, k, DefaultVal)
  \/ \E k \in SmallKeys : Erase(1, k)
  \/ EraseIt(1)
  \/ \E k \in SmallKeys : ItFind(1, k)
  \/ ItBegin(1)
  \/ ItEnd(1)
  \/ ItDefault
  \/ ItInc
  \/ ItDec
  \/ ItDeref

SpecIter == Init /\ [][NextIter]_vars

\* size(): one map over SmallKeys, with the keys ever inserted and the numbers
\* of insertions that created an element and of erasures that succeeded.
SizeInsert(k, v) ==
  /\ InsertOp(1, k, v)
  /\ hist' = [hist EXCEPT !.ever = @ \cup {k}, !.ins = IF last'.ok THEN @ + 1 ELSE @]

SizeIndex(k) ==
  /\ IndexOp(1, k)
  /\ hist' = [hist EXCEPT !.ever = @ \cup {k}, !.ins = IF last'.ok THEN @ + 1 ELSE @]

SizeErase(k) ==
  /\ findNode(heap, root[1], k) # NULL => hist.ers < MaxErase
  /\ EraseOp(1, k)
  /\ hist' = [hist EXCEPT !.ers = IF last'.ok THEN @ + 1 ELSE @]

NextSize ==
  \/ \E k \in SmallKeys : SizeInsert(k, DefaultVal)
  \/ \E k \in SmallKeys : SizeIndex(k)
  \/ \E k \in SmallKeys : SizeErase(k)

SpecSize == Init /\ [][NextSize]_vars

\* size_t size() const
size(cnt, m) == cnt[m]

\* Element access: one map over SmallKeys with every value, read by at() and
\* the const operator[].
NextAccess ==
  \/ \E k \in SmallKeys, v \in Vals : Insert(1, k, v)
  \/ \E k \in SmallKeys : Index(1, k)
  \/ \E k \in SmallKeys : Erase(1, k)
  \/ \E k \in SmallKeys : At(1, k)
  \/ \E k \in SmallKeys : ConstIndex(1, k)

SpecAccess == Init /\ [][NextAccess]_vars

\* Positions of another map: map 1 grows while alone, map 2 is a copy of it,
\* and the outstanding iterator is taken from either map and handed to erase
\* of either map.
NextForeign ==
  \/ \E k \in SmallKeys : Alone /\ Insert(1, k, DefaultVal)
  \/ CopyConstruct(2, 1)
  \/ Destruct(2)
  \/ \E m \in Maps, k \in SmallKeys : ItFind(m, k)
  \/ \E m \in Maps : ItEnd(m)
  \/ ItDefault
  \/ \E m \in Maps : EraseIt(m)

SpecForeign == Init /\ [][NextForeign]_vars

(***************************************************************************)
(* What the claims speak of.                                               *)
(***************************************************************************)

\* The keys of the subtree of x in in-order (left, node, right).
RECURSIVE InOrder(_, _)
InOrder(hp, x) ==
  IF x = NULL THEN <<>>
  ELSE InOrder(hp, hp[x].left) \o <<hp[x].key>> \o InOrder(hp, hp[x].right)

\* The key/value pairs of the subtree of x in in-order.
RECURSIVE Items(_, _)
Items(hp, x) ==
  IF x = NULL THEN <<>>
  ELSE Items(hp, hp[x].left) \o <<<<hp[x].key, hp[x].val>>>> \o Items(hp, hp[x].right)

\* The height of the subtree of x, by child links.
RECURSIVE TrueHeight(_, _)
TrueHeight(hp, x) ==
  IF x = NULL THEN 0
  ELSE 1 + max2(TrueHeight(hp, hp[x].left), TrueHeight(hp, hp[x].right))

Ascending(q) == \A i \in 1..(Len(q) - 1) : comp(q[i], q[i + 1])

\* Left subtree before the node, right subtree after it, at every node of x.
SearchTree(hp, x) ==
  \A y \in destroy(hp, x) :
    /\ \A z \in destroy(hp, hp[y].left) : comp(hp[z].key, hp[y].key)
    /\ \A z \in destroy(hp, hp[y].right) : comp(hp[y].key, hp[z].key)

\* No two nodes of x hold equivalent keys.
UniqueKeys(hp, x) ==
  \A y, z \in destroy(hp, x) :
    y # z => comp(hp[y].key, hp[z].key) \/ comp(hp[z].key, hp[y].key)

\* C1: in every map, after every operation of Spec (insert, operator[],
\* erase, clear, copy construction and assignment), the in-order traversal is
\* strictly ascending, every node separates its left subtree from its right
\* one, and no two nodes hold equivalent keys.
C1_Order ==
  \A m \in built :
    /\ Ascending(InOrder(heap, root[m]))
    /\ SearchTree(heap, root[m])
    /\ UniqueKeys(heap, root[m])

\* An erasure of a node with two children, followed by a rotation, has left
\* three keys in the tree.
C1_Witness ==
  /\ last.op = "erase" /\ last.ok /\ last.two /\ last.rot
  /\ Len(InOrder(heap, root[1])) = 3

Abs(a) == IF a < 0 THEN -a ELSE a

\* C2: after every operation of Spec, at every node of every map the true
\* heights of the two subtrees differ by at most one.
C2_Balance ==
  \A m \in built : \A x \in NodesOf(m) :
    Abs(TrueHeight(heap, heap[x].left) - TrueHeight(heap, heap[x].right)) <= 1

\* An erasure of a node with at most one child (from the shorter side) has
\* made an ancestor rotate.
C2_Witness ==
  /\ last.op = "erase" /\ last.ok /\ ~last.two /\ last.rot
  /\ n[1] = 3

\* The pairs of q whose key is not k.
Without(q, k) == SelectSeq(q, LAMBDA e : e[1] # k)

\* C3: erase(find(k)) of a present key k leaves the pairs of the map as they
\* were, in order, less the one of k; it does not throw, and find(k) is end().
C3_ErasePresent ==
  [][\A k \in SmallKeys :
       (Erase(1, k) /\ find(heap, root, 1, k) # end(1))
         => /\ last'.ok
            /\ Items(heap', root'[1]) = Without(Items(heap, root[1]), k)
            /\ Len(Items(heap', root'[1])) = Len(Items(heap, root[1])) - 1
            /\ find(heap', root', 1, k) = end(1)]_vars

\* A node with two children was erased and the two pairs left have different
\* values.
C3_Witness ==
  /\ last.op = "erase" /\ last.ok /\ last.two
  /\ \E x, y \in NodesOf(1) : heap[x].val # heap[y].val

\* C4: insert((k, v)) of an absent key returns (position, true); find(k) then
\* is that position, not end(), and denotes (k, v); the pairs that were
\* present are present unchanged.
C4_InsertAbsent ==
  [][\A k \in SmallKeys, v \in Vals :
       (Insert(1, k, v) /\ find(heap, root, 1, k) = end(1))
         => /\ last'.ok
            /\ insert(heap, live, root[1], k, v).inserted
            /\ find(heap', root', 1, k) # end(1)
            /\ find(heap', root', 1, k).cur = insert(heap, live, root[1], k, v).ins
            /\ deref(heap', find(heap', root', 1, k)) = [thrown |-> FALSE, key |-> k, val |-> v]
            /\ Without(Items(heap', root'[1]), k) = Items(heap, root[1])
            /\ Len(Items(heap', root'[1])) = Len(Items(heap, root[1])) + 1]_vars

\* A third key was inserted with a rotation, and the values differ.
C4_Witness ==
  /\ last.op = "insert" /\ last.ok /\ last.rot
  /\ n[1] = 3
  /\ \E x, y \in NodesOf(1) : heap[x].val # heap[y].val

\* C5: insert((k, v)) of a present key returns (its position, false) and
\* changes neither size() nor any node (key, value, children, parent, height)
\* nor the root.
C5_InsertPresent ==
  [][\A k \in SmallKeys, v \in Vals :
       (Insert(1, k, v) /\ find(heap, root, 1, k) # end(1))
         => /\ ~last'.ok
            /\ ~insert(heap, live, root[1], k, v).inserted
            /\ insert(heap, live, root[1], k, v).ins = find(heap, root, 1, k).cur
            /\ size(n', 1) = size(n, 1)
            /\ Items(heap', root'[1]) = Items(heap, root[1])
            /\ heap' = heap /\ root' = root /\ live' = live]_vars

\* An insertion was refused in a tree of three nodes that hold both values
\* (so the value offered differed from a stored one).
C5_Witness ==
  /\ last.op = "insert" /\ ~last.ok
  /\ n[1] = 3
  /\ \E x, y \in NodesOf(1) : heap[x].val # heap[y].val

\* C6 as stated: size() is the number of distinct keys ever inserted less the
\* number of erasures that succeeded.
C6_Original == size(n, 1) = Cardinality(hist.ever) - hist.ers

\* C6, amended: size() is the number of insertions that created an element
\* (insert returning true, operator[] of an absent key) less the number of
\* erasures that succeeded.
C6_Size == size(n, 1) = hist.ins - hist.ers

\* A key was erased and inserted again, and two keys are present.
C6_Witness ==
  /\ hist.ers >= 1
  /\ hist.ins > Cardinality(hist.ever)
  /\ size(n, 1) = 2

\* C7 as stated: erase(find(k)) leaves every other iterator of the map on a
\* node that has not been deleted, denoting the pair it denoted.
C7_Original ==
  [][\A k \in SmallKeys :
       (/\ Erase(1, k)
        /\ find(heap, root, 1, k) # end(1)
        /\ it.owner = 1 /\ it.cur \in NodesOf(1)
        /\ it.cur # find(heap, root, 1, k).cur)
         => /\ it'.cur \in live'
            /\ deref(heap', it') = deref(heap, it)]_vars

\* The iterator i advanced j times.
RECURSIVE Advance(_, _, _)
Advance(hp, i, j) ==
  IF j = 0 THEN i
  ELSE LET a == Advance(hp, i, j - 1) IN [a EXCEPT !.cur = inc(hp, a).cur]

\* C8: from begin(), each of the first size() advances succeeds from an
\* element, the elements met are the keys of the map in ascending order, each
\* once, and the iterator is end() after exactly size() advances; begin() of
\* an empty map is end().
C8_Traversal ==
  LET keys == InOrder(heap, root[1])
  IN  /\ Len(keys) = size(n, 1)
      /\ Ascending(keys)
      /\ \A j \in 0..size(n, 1) :
           LET a == Advance(heap, begin(heap, root, 1), j)
           IN  IF j < size(n, 1)
                 THEN /\ a # end(1)
                      /\ deref(heap, a).key = keys[j + 1]
                      /\ ~inc(heap, a).thrown
                 ELSE a = end(1)

\* The outstanding iterator was advanced to end() in a map of three keys.
C8_Witness ==
  /\ last.op = "inc" /\ last.ok
  /\ it = end(1)
  /\ size(n, 1) = 3

KeyAt(x) == heap[x].key

\* C9: --end() of a non-empty map denotes the greatest key, and -- of an
\* iterator on an element that is not the least denotes the greatest key
\* below it.
C9_Retreat ==
  /\ root[1] # NULL =>
       LET d == dec(heap, root, end(1))
       IN  /\ ~d.thrown
           /\ d.cur \in NodesOf(1)
           /\ \A y \in NodesOf(1) : KeyAt(y) <= KeyAt(d.cur)
  /\ \A x \in NodesOf(1) :
       (\E y \in NodesOf(1) : KeyAt(y) < KeyAt(x)) =>
         LET d == dec(heap, root, [owner |-> 1, cur |-> x])
         IN  /\ ~d.thrown
             /\ d.cur \in NodesOf(1)
             /\ KeyAt(d.cur) < KeyAt(x)
             /\ \A y \in NodesOf(1) : KeyAt(y) < KeyAt(x) => KeyAt(y) <= KeyAt(d.cur)

\* The outstanding iterator was retreated onto the greatest of three keys
\* (which only end() precedes).
C9_Witness ==
  /\ last.op = "dec" /\ last.ok
  /\ it.owner = 1 /\ it.cur \in NodesOf(1)
  /\ \A y \in NodesOf(1) : KeyAt(y) <= KeyAt(it.cur)
  /\ size(n, 1) = 3

\* The iterator denotes the least element of its map.
AtMinimum(i) ==
  /\ i.owner \in built /\ i.cur \in NodesOf(i.owner)
  /\ \A y \in NodesOf(i.owner) : KeyAt(i.cur) <= KeyAt(y)

MapUnchanged == heap' = heap /\ live' = live /\ root' = root /\ n' = n

\* C10: ++ of a past-the-end or default-constructed iterator, -- of an
\* iterator on the least element, of end() of an empty map or of a
\* default-constructed iterator, and * of a past-the-end or default-constructed
\* iterator throw invalid_iterator and change neither the iterator nor the map.
C10_Throws ==
  [][/\ (ItInc /\ it.cur = NULL) => (~last'.ok /\ it' = it /\ MapUnchanged)
     /\ (ItDec /\ (\/ it.owner = 0
                   \/ it.owner \in built /\ it.cur = NULL /\ size(n, it.owner) = 0
                   \/ AtMinimum(it)))
          => (~last'.ok /\ it' = it /\ MapUnchanged)
     /\ (ItDeref /\ it.cur = NULL) => (~last'.ok /\ it' = it /\ MapUnchanged)]_vars

\* -- was refused for an iterator on the least of at least two elements.
C10_Witness ==
  /\ last.op = "dec" /\ ~last.ok
  /\ AtMinimum(it)
  /\ size(n, 1) >= 2

\* C11: erase(pos) with pos past-the-end, default-constructed or taken from
\* another map (also when this map holds an equivalent key) throws
\* invalid_iterator and changes no node, no root, no size and frees nothing.
C11_EraseThrows ==
  [][\A m \in Maps :
       (last'.op = "eraseIt" /\ EraseIt(m) /\ (it.cur = NULL \/ it.owner # m))
         => /\ ~last'.ok
            /\ MapUnchanged
            /\ \A o \in built : Items(heap', root'[o]) = Items(heap, root[o])]_vars

\* erase of map 1 was refused for an iterator on an element of map 2 while
\* map 1 holds an element with an equivalent key.
C11_Witness ==
  /\ last.op = "eraseIt" /\ ~last.ok
  /\ built = Maps
  /\ it.owner = 2 /\ it.cur \in NodesOf(2)
  /\ \E x \in NodesOf(1) : KeyAt(x) = KeyAt(it.cur)
  /\ size(n, 1) >= 2

\* The map m holds an element with a key equivalent to k.
Present(hp, rt, k) == \E i \in 1..Len(Items(hp, rt)) : Items(hp, rt)[i][1] = k

\* The value v is the one stored with k.
Stored(hp, rt, k, v) == \E i \in 1..Len(Items(hp, rt)) : Items(hp, rt)[i] = <<k, v>>

\* C12: at(k) and the const operator[] throw index_out_of_bound exactly when
\* no element has a key equivalent to k (so for every key of an empty map), and
\* otherwise return the value stored with k; in both cases no node, no root and
\* no size changes.
C12_Access ==
  [][\A k \in SmallKeys :
       /\ (last'.op = "at" /\ At(1, k)) =>
            /\ last'.ok <=> Present(heap, root[1], k)
            /\ at(heap, root[1], k).thrown <=> ~Present(heap, root[1], k)
            /\ Present(heap, root[1], k) => Stored(heap, root[1], k, at(heap, root[1], k).val)
            /\ MapUnchanged
       /\ (last'.op = "constIndex" /\ ConstIndex(1, k)) =>
            /\ last'.ok <=> Present(heap, root[1], k)
            /\ constIndex(heap, root[1], k).thrown <=> ~Present(heap, root[1], k)
            /\ Present(heap, root[1], k) =>
                 Stored(heap, root[1], k, constIndex(heap, root[1], k).val)
            /\ MapUnchanged]_vars

\* at() returned from a map of three elements that hold both values.
C12_Witness ==
  /\ last.op = "at" /\ last.ok
  /\ size(n, 1) = 3
  /\ \E x, y \in NodesOf(1) : heap[x].val # heap[y].val

\* At every node of the tree rt the true heights of the subtrees differ by at
\* most one.
Balanced(hp, rt) ==
  \A x \in destroy(hp, rt) :
    Abs(TrueHeight(hp, hp[x].left) - TrueHeight(hp, hp[x].right)) <= 1

\* The parent of the root is absent, the parent of every other node is the
\* node whose child link designates it, and no node is its own parent.
ParentsOk(hp, rt) ==
  /\ rt # NULL => hp[rt].parent = NULL
  /\ \A x \in destroy(hp, rt) :
       /\ hp[x].parent # x
       /\ hp[x].left # NULL => hp[hp[x].left].parent = x
       /\ hp[x].right # NULL => hp[hp[x].right].parent = x

\* Every cached height is 1 + max of the cached heights of the children (0
\* for an absent child), and is the true height of the subtree.
HeightsOk(hp, rt) ==
  \A x \in destroy(hp, rt) :
    /\ hp[x].height = 1 + max2(h(hp, hp[x].left), h(hp, hp[x].right))
    /\ hp[x].height = TrueHeight(hp, x)

\* The invariants of the tree rt of a map whose count is cnt.
TreeOk(hp, rt, cnt) ==
  /\ Ascending(InOrder(hp, rt)) /\ SearchTree(hp, rt) /\ UniqueKeys(hp, rt)
  /\ Balanced(hp, rt) /\ ParentsOk(hp, rt) /\ HeightsOk(hp, rt)
  /\ cnt = Cardinality(destroy(hp, rt))

\* C13: operator[] of an absent key adds the pair (k, T()) and nothing else,
\* increases size() by one and keeps the invariants of the tree, the reference
\* returned is to that value, and at(k) then returns T(); operator[] of a
\* present key returns a reference to the stored value and changes no node, no
\* root and no size.
C13_Index ==
  [][\A k \in SmallKeys :
       /\ (last'.op = "index" /\ Index(1, k) /\ ~Present(heap, root[1], k)) =>
            /\ last'.ok
            /\ size(n', 1) = size(n, 1) + 1
            /\ Without(Items(heap', root'[1]), k) = Items(heap, root[1])
            /\ Len(Items(heap', root'[1])) = Len(Items(heap, root[1])) + 1
            /\ Stored(heap', root'[1], k, DefaultVal)
            /\ heap'[index(heap, live, root[1], k).ins].key = k
            /\ heap'[index(heap, live, root[1], k).ins].val = DefaultVal
            /\ at(heap', root'[1], k) = [thrown |-> FALSE, val |-> DefaultVal]
            /\ TreeOk(heap', root'[1], size(n', 1))
       /\ (last'.op = "index" /\ Index(1, k) /\ Present(heap, root[1], k)) =>
            /\ ~last'.ok
            /\ heap[index(heap, live, root[1], k).ins].key = k
            /\ Stored(heap, root[1], k, heap[index(heap, live, root[1], k).ins].val)
            /\ MapUnchanged]_vars

\* operator[] created a third element with a rotation in a map that holds a
\* value other than T().
C13_Witness ==
  /\ last.op = "index" /\ last.ok /\ last.rot
  /\ size(n, 1) = 3
  /\ \E x \in NodesOf(1) : heap[x].val # DefaultVal

\* The two maps hold the same pairs (or only one exists).
Synced == built = Maps => Items(heap, root[1]) = Items(heap, root[2])

\* Two maps side by side: map 1 is filled with every value while alone, map 2
\* is copy-constructed from it, the maps are assigned to each other and to
\* themselves, and either map is changed by insert, erase and clear while the
\* other exists and holds the same pairs.
NextCopy ==
  \/ \E k \in SmallKeys, v \in Vals : Alone /\ Insert(1, k, v)
  \/ \E m \in Maps, k \in SmallKeys : ~Alone /\ Synced /\ Insert(m, k, DefaultVal)
  \/ \E m \in Maps, k \in SmallKeys : ~Alone /\ Synced /\ Erase(m, k)
  \/ \E m \in Maps : ~Alone /\ Synced /\ Clear(m)
  \/ CopyConstruct(2, 1)
  \/ \E m, o \in Maps : Assign(m, o)
  \/ Destruct(2)

SpecCopy == Init /\ [][NextCopy]_vars

\* The step leaves root, size and every node of map o as they were.
Same(o) ==
  /\ root'[o] = root[o]
  /\ size(n', o) = size(n, o)
  /\ \A x \in NodesOf(o) : x \in live' /\ heap'[x] = heap[x]

\* The step makes map m a copy of map o: the pairs and the size of o, on nodes
\* that are not nodes of o, in a tree that satisfies the invariants; o is as
\* it was.
CopyOf(m, o) ==
  /\ Items(heap', root'[m]) = Items(heap, root[o])
  /\ size(n', m) = size(n, o)
  /\ destroy(heap', root'[m]) \cap destroy(heap', root'[o]) = {}
  /\ TreeOk(heap', root'[m], size(n', m))
  /\ Same(o)

\* The step is an insert, an erase or a clear of map m.
ChangedBy(m) ==
  \/ last'.op = "clear" /\ Clear(m)
  \/ last'.op = "erase" /\ \E k \in SmallKeys : Erase(m, k)
  \/ last'.op = "insert" /\ \E k \in SmallKeys, v \in Vals : Insert(m, k, v)

\* C14: copy construction and copy assignment make the destination hold the
\* pairs and the size of the source on nodes of its own; insert, erase and
\* clear of one map leave the root, the size and every node of the other map
\* unchanged; self-assignment changes nothing.
C14_Independent ==
  [][/\ (last'.op = "copy" /\ CopyConstruct(2, 1)) => CopyOf(2, 1)
     /\ \A m, o \in Maps :
          (last'.op = "assign" /\ Assign(m, o)) =>
            IF m = o THEN MapUnchanged ELSE CopyOf(m, o)
     /\ \A m \in Maps :
          \/ \A o \in built \ {m} : Same(o)
          \/ ~ChangedBy(m)]_vars

\* An element was erased from one of two maps that held the same pairs, and
\* the other map still holds three elements with both values.
C14_Witness ==
  /\ last.op = "erase" /\ last.ok
  /\ built = Maps
  /\ Items(heap, root[1]) # Items(heap, root[2])
  /\ \E m \in Maps :
       /\ size(n, m) = 3
       /\ \E x, y \in NodesOf(m) : heap[x].val # heap[y].val

\* C15: after every operation of Spec (insertions and erasures with single
\* and double rotations, clear, copy construction and assignment), in every
\* map the parent of the root is absent, the parent of every other node is the
\* node whose left or right child link designates it, and no node is its own
\* parent.
C15_Parents == \A m \in built : ParentsOk(heap, root[m])

\* An erasure has rotated the root of a tree that had four nodes: the node
\* that became the root had a parent before.
C15_Witness ==
  /\ last.op = "erase" /\ last.ok /\ last.rot
  /\ size(n, 1) = 3
  /\ heap[root[1]].left # NULL /\ heap[root[1]].right # NULL
  /\ ParentsOk(heap, root[1])

\* C16: after every operation of Spec, in every map (also one made by copy
\* construction or copy assignment) the cached height of every node is
\* 1 + max of the heights of its children, an absent child counting 0, and is
\* the true height of its subtree.
C16_Heights == \A m \in built : HeightsOk(heap, root[m])

\* Map 2 was made a copy of a map of three nodes, whose root has height 2.
C16_Witness ==
  /\ last.op \in {"copy", "assign"}
  /\ built = Maps
  /\ size(n, 2) = 3
  /\ root[2] # NULL /\ heap[root[2]].height = 2
  /\ root[1] # root[2]

\* The number of nodes reached from the root of m equals n.
CountOk(hp, rt, cnt, m) == cnt[m] = Cardinality(destroy(hp, rt[m]))

\* C17: before and after every operation of Spec, n is the number of nodes
\* reached from root; erase of a present key lowers n by exactly one (whether
\* the node had two children or not), and erase of an absent key and insert of
\* a present key leave n as it was.
C17_Count ==
  [][/\ \A m \in built : CountOk(heap, root, n, m)
     /\ \A m \in built' : CountOk(heap', root', n', m)
     /\ \A k \in Keys :
          /\ (last'.op = "erase" /\ Erase(1, k)) =>
               IF findNode(heap, root[1], k) # NULL
                 THEN last'.ok /\ size(n', 1) = size(n, 1) - 1
                 ELSE ~last'.ok /\ size(n', 1) = size(n, 1)
          /\ (last'.op = "insert" /\ Insert(1, k, DefaultVal)
                /\ findNode(heap, root[1], k) # NULL) =>
               ~last'.ok /\ size(n', 1) = size(n, 1)]_vars

\* A node with two children was erased without a rotation, and two nodes are
\* left.
C17_Witness ==
  /\ last.op = "erase" /\ last.ok /\ last.two /\ ~last.rot
  /\ size(n, 1) = 2
  /\ Cardinality(NodesOf(1)) = 2

\* The nodes of the subtree of x in in-order.
RECURSIVE InOrderNodes(_, _)
InOrderNodes(hp, x) ==
  IF x = NULL THEN <<>>
  ELSE InOrderNodes(hp, hp[x].left) \o <<x>> \o InOrderNodes(hp, hp[x].right)

\* The node x is the i-th node of the tree rt in in-order.
PlaceOf(hp, rt, x, i) == i \in 1..Len(InOrderNodes(hp, rt)) /\ InOrderNodes(hp, rt)[i] = x

\* What C18 says of an erase of node x (key k) with two children whose
\* successor node is s.
TwoChildrenErased(k, x, s) ==
  /\ last'.ok
  /\ s # x
  /\ heap[s].key # k
  /\ \A y \in NodesOf(1) : comp(k, heap[y].key) => ~comp(heap[y].key, heap[s].key)
  /\ live \ live' = {s}
  /\ live' \subseteq live
  /\ x \in live'
  /\ x \in destroy(heap', root'[1])
  /\ \A i \in 1..size(n, 1) : PlaceOf(heap, root[1], x, i) => PlaceOf(heap', root'[1], x, i)
  /\ heap'[x].key = heap[s].key
  /\ heap'[x].val = heap[s].val
  /\ deref(heap', [owner |-> 1, cur |-> x])
       = [thrown |-> FALSE, key |-> heap[s].key, val |-> heap[s].val]

Owned(hp, rt, bl) == UNION {destroy(hp, rt[m]) : m \in bl}

\* Every node that is allocated and not freed is reached from the root of
\* exactly one live map, and every node so reached is allocated and not freed.
ExactlyOwned(hp, lv, rt, bl) ==
  /\ lv = Owned(hp, rt, bl)
  /\ \A m, o \in bl : m # o => destroy(hp, rt[m]) \cap destroy(hp, rt[o]) = {}

\* The number of delete expressions destroy(x) evaluates.
RECURSIVE DestroyCalls(_, _)
DestroyCalls(hp, x) ==
  IF x = NULL THEN 0
  ELSE DestroyCalls(hp, hp[x].left) + DestroyCalls(hp, hp[x].right) + 1

\* destroy(root) of map m deletes every node of m, each once, and each is a
\* node that had not been freed.
FreesAll(m) ==
  /\ DestroyCalls(heap, root[m]) = Cardinality(NodesOf(m))
  /\ NodesOf(m) \subseteq live

\* C19: before and after every operation of SpecCopy every node allocated
\* and not freed is reached from the root of exactly one live map; clear and
\* the destructor free every node of the map, each once, and leave it empty;
\* copy assignment to another map frees every node the destination owned and
\* leaves it with the pairs of the source on nodes that were free; an erase
\* that succeeds frees exactly one node and one that fails frees none.
C19_Ownership ==
  [][/\ ExactlyOwned(heap, live, root, built)
     /\ ExactlyOwned(heap', live', root', built')
     /\ last'.op = "erase" =>
          /\ live' \subseteq live
          /\ Cardinality(live \ live') = IF last'.ok THEN 1 ELSE 0
     /\ \A m \in Maps :
          (last'.op = "clear" /\ Clear(m)) =>
            /\ FreesAll(m)
            /\ live' = live \ NodesOf(m)
            /\ root'[m] = NULL /\ size(n', m) = 0
     /\ (last'.op = "destruct" /\ Destruct(2)) =>
          /\ FreesAll(2)
          /\ live' = live \ NodesOf(2)
     /\ \A m, o \in Maps :
          (last'.op = "assign" /\ m # o /\ Assign(m, o)) =>
            /\ FreesAll(m)
            /\ destroy(heap', root'[m]) \cap (live \ NodesOf(m)) = {}
            /\ live' = (live \ NodesOf(m)) \cup destroy(heap', root'[m])
            /\ Items(heap', root'[m]) = Items(heap, root[o])
            /\ size(n', m) = size(n, o)]_vars

\* An erase has freed one node of one of two maps of three elements: five
\* nodes are allocated.
C19_Witness ==
  /\ last.op = "erase" /\ last.ok
  /\ built = Maps
  /\ Cardinality(live) = 5
  /\ {size(n, 1), size(n, 2)} = {2, 3}

\* The nodes x for which erase of target calls eraseByNode(x, target, erased):
\* the nodes on the way from the root to target, target included.
CallsFor(hp, rt, target) == {x \in destroy(hp, rt) : target \in destroy(hp, x)}

\* The parent of the subtree root that eraseByNode(x, target, erased) returns
\* (r is what the call returned).
ResParent(r) == r.heap[r.res].parent

\* The call for x put another node at the root of the subtree by a rotation.
Rotated(r, x) == r.res # x /\ x \notin r.freed

ResParentAsLeft(r, x) ==
  r.res # NULL =>
    ResParent(r) = IF Rotated(r, x) THEN r.res ELSE heap[x].parent

====
